---- MODULE Spec2Model ----
(***************************************************************************)
(* FileStem (CloudStore): the client synchronisation layer of the file     *)
(* storage page.  One React component (FileStorageApp) with three          *)
(* react-query hooks (useGetFiles, useAddFile, useGetFileContent) talking  *)
(* to a remote actor.  The model is an event-loop model: every action is   *)
(* one task of the single JavaScript thread (a UI event handler, a timer   *)
(* callback, the settling of a promise together with the callbacks it      *)
(* runs, a React commit) or one step of the remote actor.                  *)
(*                                                                         *)
(* Percentages are kept in tenths of a percent (95% = 950, 100% = 1000),   *)
(* so that the increment 95/50 = 1.9 is the integer 19.                    *)
(***************************************************************************)
EXTENDS Integers, Sequences, FiniteSets, TLC

\* ------------------------------------------------------------------ bounds
MaxAccepted == 1        \* uploads the remote store accepts before it is full
MaxDownloads == 2       \* getFileContent calls that may be outstanding at once

Names == {"a.txt", "b.pdf"}
Sizes == {10}
Causes == {"quota exceeded"}

\* the remote store at page load
InitialStore == <<[id |-> 1, name |-> "a.txt", size |-> 10]>>

\* ------------------------------------------------------- program constants
duration == 1500
intervalTime == 30
complete == 1000
\* mutant: the timer animates all the way to 100%
ceilingAtComplete == complete
ceiling == 950
steps == duration \div intervalTime
increment == ceiling \div steps

NoFile == 0             \* fileToDelete === null

ActorNotInitialized == "Actor not initialized"
FileNotFound == "File not found"

\* ------------------------------------------------------------------- state
VARIABLES
  actor,            \* useActor().actor is non-null
  actorIsFetching,  \* useActor().isFetching
  remote,           \* the remote store: sequence of FileMetadata
  files,            \* query ['files'] data (the File Cache)
  queryInvalidated, \* query ['files'] is marked invalidated
  fetch,            \* the getFiles fetch of query ['files']
  addCalls,         \* addFile mutations that have not settled yet
  addStatus,        \* addFileMutation.status as the observer holds it
  isUploading,      \* useState isUploading
  uploadProgress,   \* useState uploadProgress
  settleTimer,      \* the 500 ms setTimeout of onSuccess is armed
  rendered,         \* values of the last React commit
  intervalActive,   \* the effect's setInterval is running
  currentProgress,  \* the effect's closure variable currentProgress
  filePicker,       \* the native file dialog of #file-input is open
  fileToDelete,     \* useState fileToDelete
  dlCalls,          \* getFileContent mutations that have not settled yet
  dlStatus,         \* getFileContentMutation.status
  mounted,          \* FileStorageApp is mounted
  notice,           \* the toast emitted by the last step
  consoleErr,       \* what the last step passed to console.error
  issued,           \* the remote calls issued by the last step
  saved,            \* the file name the last step offered as a download
  staleSetState,    \* the last step called state setters of the unmounted page
  sessLog           \* events of the upload session started by the last submit

vars == <<actor, actorIsFetching, remote, files, queryInvalidated, fetch,
          addCalls, addStatus, isUploading, uploadProgress, settleTimer,
          rendered, intervalActive, currentProgress, filePicker,
          fileToDelete, dlCalls, dlStatus, mounted, notice, consoleErr,
          issued, saved, staleSetState, sessLog>>

remoteVars == <<remote>>
actorVars == <<actor, actorIsFetching>>
queryVars == <<files, queryInvalidated, fetch>>
uploadVars == <<addCalls, addStatus, isUploading, uploadProgress, settleTimer,
                sessLog>>
effectVars == <<intervalActive, currentProgress>>
downloadVars == <<dlCalls, dlStatus>>

\* ----------------------------------------------------------------- helpers
FileMetadata(i, n, s) == [id |-> i, name |-> n, size |-> s]

Ids(list) == {list[k].id : k \in 1..Len(list)}

RemoveAt(s, i) == [k \in 1..(Len(s) - 1) |-> IF k < i THEN s[k] ELSE s[k + 1]]

NoNotice == [level |-> "none", title |-> "", description |-> ""]
Toast(l, t, d) == [level |-> l, title |-> t, description |-> d]

\* every step reports what it emitted; Quiet is a step that emitted nothing
EmitOut(n, c, calls, s) ==
  /\ notice' = n
  /\ consoleErr' = c
  /\ issued' = calls
  /\ saved' = s

Emit(n, c, calls, s) ==
  /\ EmitOut(n, c, calls, s)
  /\ staleSetState' = FALSE

Quiet == Emit(NoNotice, "", {}, "")

\* useGetFiles: enabled: !!actor && !isFetching
QueryEnabled == actor /\ ~actorIsFetching

\* what the component would render now
View == [isUploading |-> isUploading,
         isPending |-> (addStatus = "pending"),
         dlPending |-> (dlStatus = "pending")]

\* <Button disabled={isUploading}> as last committed
UploadDisabled == rendered.isUploading

\* <Button disabled={getFileContentMutation.isPending}> as last committed
DownloadDisabled == rendered.dlPending

\* no modal surface (file dialog, AlertDialog) covers the page
PageFree == mounted /\ ~filePicker /\ fileToDelete = NoFile

\* the useEffect of the progress animation, run at a commit whose
\* dependencies [isUploading, isPending] went from old to new
EffectSync(old, new) ==
  IF <<old.isUploading, old.isPending>> = <<new.isUploading, new.isPending>>
  THEN UNCHANGED effectVars
  ELSE /\ intervalActive' = (new.isUploading /\ new.isPending)
       /\ currentProgress' = IF new.isUploading /\ new.isPending
                             THEN 0 ELSE currentProgress

Init ==
  /\ actor = FALSE
  /\ actorIsFetching = TRUE
  /\ remote = InitialStore
  /\ files = <<>>
  /\ queryInvalidated = FALSE
  /\ fetch = [stage |-> "idle", data |-> <<>>]
  /\ addCalls = <<>>
  /\ addStatus = "idle"
  /\ isUploading = FALSE
  /\ uploadProgress = 0
  /\ settleTimer = FALSE
  /\ rendered = [isUploading |-> FALSE, isPending |-> FALSE,
                 dlPending |-> FALSE]
  /\ intervalActive = FALSE
  /\ currentProgress = 0
  /\ filePicker = FALSE
  /\ fileToDelete = NoFile
  /\ dlCalls = <<>>
  /\ dlStatus = "idle"
  /\ mounted = TRUE
  /\ notice = NoNotice
  /\ consoleErr = ""
  /\ issued = {}
  /\ saved = ""
  /\ staleSetState = FALSE
  /\ sessLog = <<>>

\* queryFn of useGetFiles, run with the actor of the render that started it
QueryFnStart(a) ==
  IF ~a THEN [stage |-> "replied", data |-> <<>>]
        ELSE [stage |-> "sent", data |-> <<>>]

QueryFnCalls(a) == IF ~a THEN {} ELSE {"getFiles"}

\* ------------------------------------------------- Remote Client Binding
\* useActor is not part of the sources: the binding is unavailable at page
\* load, becomes available, and may become unavailable again.
\* the files query becomes enabled: its observer fetches (unless a fetch
\* is already running)
EnableFetches == mounted /\ fetch.stage = "idle"

ActorReady ==
  /\ ~actor
  /\ actor' = TRUE
  /\ actorIsFetching' = FALSE
  /\ fetch' = IF EnableFetches THEN QueryFnStart(TRUE) ELSE fetch
  /\ Emit(NoNotice, "", IF EnableFetches THEN QueryFnCalls(TRUE) ELSE {}, "")
  /\ UNCHANGED <<remoteVars, files, queryInvalidated, uploadVars, rendered,
                 effectVars, filePicker, fileToDelete, downloadVars, mounted>>

ActorLost ==
  /\ actor
  /\ actor' = FALSE
  /\ actorIsFetching' = TRUE
  /\ Quiet
  /\ UNCHANGED <<remoteVars, queryVars, uploadVars, rendered, effectVars,
                 filePicker, fileToDelete, downloadVars, mounted>>

\* ------------------------------------------------------------ File Cache
\* the observer of the enabled query refetches (window focus, reconnect)
Refresh ==
  /\ mounted
  /\ QueryEnabled
  /\ fetch.stage = "idle"
  /\ fetch' = QueryFnStart(actor)
  /\ Emit(NoNotice, "", QueryFnCalls(actor), "")
  /\ UNCHANGED <<actorVars, remoteVars, files, queryInvalidated, uploadVars,
                 rendered, effectVars, filePicker, fileToDelete,
                 downloadVars, mounted>>

\* the remote store answers getFiles with its list, or the call fails
RemoteGetFiles ==
  /\ fetch.stage = "sent"
  /\ \/ fetch' = [stage |-> "replied", data |-> remote]
     \/ fetch' = [stage |-> "failed", data |-> <<>>]
  /\ Quiet
  /\ UNCHANGED <<actorVars, remoteVars, files, queryInvalidated, uploadVars,
                 rendered, effectVars, filePicker, fileToDelete,
                 downloadVars, mounted>>

\* mutant: fetched records are added to the records already cached
FetchSettleMerges ==
  /\ fetch.stage \in {"replied", "failed"}
  /\ IF fetch.stage = "replied"
     THEN /\ files' = files \o fetch.data
          /\ queryInvalidated' = FALSE
     ELSE UNCHANGED <<files, queryInvalidated>>
  /\ fetch' = [stage |-> "idle", data |-> <<>>]
  /\ Quiet
  /\ UNCHANGED <<actorVars, remoteVars, uploadVars, rendered, effectVars,
                 filePicker, fileToDelete, downloadVars, mounted>>

\* the fetch settles: on success the data replaces the cache wholesale
FetchSettle ==
  /\ fetch.stage \in {"replied", "failed"}
  /\ IF fetch.stage = "replied"
     THEN /\ files' = fetch.data
          /\ queryInvalidated' = FALSE
     ELSE UNCHANGED <<files, queryInvalidated>>
  /\ fetch' = [stage |-> "idle", data |-> <<>>]
  /\ Quiet
  /\ UNCHANGED <<actorVars, remoteVars, uploadVars, rendered, effectVars,
                 filePicker, fileToDelete, downloadVars, mounted>>

\* queryClient.invalidateQueries({ queryKey: ['files'] }): the query is
\* marked invalidated; an active (mounted, enabled) query is refetched, a
\* fetch already running being cancelled first.
\* mutant: invalidation marks the query but starts no refetch
InvalidatedFetchNone == fetch

InvalidatedFetch ==
  IF mounted /\ QueryEnabled THEN QueryFnStart(actor) ELSE fetch

InvalidateCalls ==
  IF mounted /\ QueryEnabled THEN QueryFnCalls(actor) ELSE {}

InvalidateFiles ==
  /\ queryInvalidated' = TRUE
  /\ fetch' = InvalidatedFetch
  /\ UNCHANGED files

\* ------------------------------------------------- Mutation Coordinator
\* mutant: the upload button is never disabled
handleUploadClickAlways ==
  /\ PageFree
  /\ filePicker' = TRUE
  /\ Quiet
  /\ UNCHANGED <<actorVars, remoteVars, queryVars, uploadVars, rendered,
                 effectVars, fileToDelete, downloadVars, mounted>>

\* handleUploadClick: the enabled upload button opens the file dialog
handleUploadClick ==
  /\ PageFree
  /\ ~UploadDisabled
  /\ filePicker' = TRUE
  /\ Quiet
  /\ UNCHANGED <<actorVars, remoteVars, queryVars, uploadVars, rendered,
                 effectVars, fileToDelete, downloadVars, mounted>>

\* handleFileSelect with no file chosen: only the input is reset
handleFileSelectNone ==
  /\ mounted
  /\ filePicker
  /\ filePicker' = FALSE
  /\ Quiet
  /\ UNCHANGED <<actorVars, remoteVars, queryVars, uploadVars, rendered,
                 effectVars, fileToDelete, downloadVars, mounted>>

\* mutationFn of useAddFile, run with the actor of the current render
AddFileStart(a, n, s) ==
  IF ~a
  THEN [name |-> n, size |-> s, observed |-> TRUE, stage |-> "threw",
        cause |-> ActorNotInitialized, id |-> NoFile]
  ELSE [name |-> n, size |-> s, observed |-> TRUE, stage |-> "sent",
        cause |-> "", id |-> NoFile]

AddFileCalls(a) == IF ~a THEN {} ELSE {"addFile"}

\* a new mutate() detaches the observer from the mutations before it
Unobserve(calls) == [k \in 1..Len(calls) |-> [calls[k] EXCEPT !.observed = FALSE]]

\* mutant: the files query is invalidated when the upload is submitted
handleFileSelectInvalidates(n, s) ==
  /\ mounted
  /\ filePicker
  /\ filePicker' = FALSE
  /\ isUploading' = TRUE
  /\ uploadProgress' = 0
  /\ addCalls' = Append(Unobserve(addCalls), AddFileStart(actor, n, s))
  /\ addStatus' = "pending"
  /\ sessLog' = <<"invalidated">>
  /\ InvalidateFiles
  /\ rendered' = [isUploading |-> TRUE, isPending |-> TRUE,
                  dlPending |-> (dlStatus = "pending")]
  /\ EffectSync(rendered, rendered')
  /\ Emit(Toast("success", "Selected", n), "",
          AddFileCalls(actor) \cup InvalidateCalls, "")
  /\ UNCHANGED <<actorVars, remoteVars, settleTimer, fileToDelete,
                 downloadVars, mounted>>

\* mutant: the selected file is listed at once, before the remote store
\* accepted it
handleFileSelectOptimistic(n, s) ==
  /\ mounted
  /\ filePicker
  /\ filePicker' = FALSE
  /\ isUploading' = TRUE
  /\ uploadProgress' = 0
  /\ addCalls' = Append(Unobserve(addCalls), AddFileStart(actor, n, s))
  /\ addStatus' = "pending"
  /\ sessLog' = <<>>
  /\ files' = Append(files, FileMetadata(NoFile, n, s))
  /\ rendered' = [isUploading |-> TRUE, isPending |-> TRUE,
                  dlPending |-> (dlStatus = "pending")]
  /\ EffectSync(rendered, rendered')
  /\ Emit(Toast("success", "Selected", n), "", AddFileCalls(actor), "")
  /\ UNCHANGED <<actorVars, remoteVars, queryInvalidated, fetch, settleTimer,
                 fileToDelete, downloadVars, mounted>>

\* handleFileSelect with a file: state is set, the selection is announced,
\* addFileMutation.mutate starts; React commits at the end of the event, so
\* the effect runs with isUploading and isPending both true.
handleFileSelect(n, s) ==
  /\ mounted
  /\ filePicker
  /\ filePicker' = FALSE
  /\ isUploading' = TRUE
  /\ uploadProgress' = 0
  /\ addCalls' = Append(Unobserve(addCalls), AddFileStart(actor, n, s))
  /\ addStatus' = "pending"
  /\ sessLog' = <<>>
  /\ rendered' = [isUploading |-> TRUE, isPending |-> TRUE,
                  dlPending |-> (dlStatus = "pending")]
  /\ EffectSync(rendered, rendered')
  /\ Emit(Toast("success", "Selected", n), "", AddFileCalls(actor), "")
  /\ UNCHANGED <<actorVars, remoteVars, queryVars, settleTimer, fileToDelete,
                 downloadVars, mounted>>

\* the remote store accepts addFile(name, size) and stores the record
RemoteAddAccept(i) ==
  /\ addCalls[i].stage = "sent"
  /\ Len(remote) < Len(InitialStore) + MaxAccepted
  /\ LET rec == FileMetadata(Len(remote) + 1, addCalls[i].name,
                             addCalls[i].size)
     IN /\ remote' = Append(remote, rec)
        /\ addCalls' = [addCalls EXCEPT ![i].stage = "accepted",
                                        ![i].id = rec.id]
  /\ sessLog' = Append(sessLog, "accepted")
  /\ Quiet
  /\ UNCHANGED <<actorVars, queryVars, addStatus, isUploading, uploadProgress,
                 settleTimer, rendered, effectVars, filePicker, fileToDelete,
                 downloadVars, mounted>>

\* the remote store, or the transport, fails the addFile call
RemoteAddReject(i, c) ==
  /\ addCalls[i].stage = "sent"
  /\ addCalls' = [addCalls EXCEPT ![i].stage = "rejected", ![i].cause = c]
  /\ Quiet
  /\ UNCHANGED <<actorVars, remoteVars, queryVars, addStatus, isUploading,
                 uploadProgress, settleTimer, sessLog, rendered, effectVars,
                 filePicker, fileToDelete, downloadVars, mounted>>

\* the toast of handleFileSelect's onError
UploadErrorToast(c) == Toast("error", "Failed to upload file", "")

\* the addFile promise resolves: useAddFile's onSuccess invalidates the
\* files query, then (observer still attached) handleFileSelect's onSuccess
\* completes the bar, announces success and arms the 500 ms reset
AddSettleSuccess(i) ==
  /\ addCalls[i].stage = "accepted"
  /\ InvalidateFiles
  /\ addCalls' = RemoveAt(addCalls, i)
  /\ IF addCalls[i].observed
     THEN /\ addStatus' = "success"
          /\ uploadProgress' = complete
          /\ settleTimer' = TRUE
          /\ sessLog' = sessLog \o <<"invalidated", "progress100">>
          /\ Emit(Toast("success", "File uploaded successfully!", ""), "",
                  InvalidateCalls, "")
     ELSE /\ sessLog' = Append(sessLog, "invalidated")
          /\ Emit(NoNotice, "", InvalidateCalls, "")
          /\ UNCHANGED <<addStatus, uploadProgress, settleTimer>>
  /\ UNCHANGED <<actorVars, remoteVars, isUploading, rendered, effectVars,
                 filePicker, fileToDelete, downloadVars, mounted>>

\* mutant: the failure handler also invalidates the files query
AddSettleErrorInvalidates(i) ==
  /\ addCalls[i].stage \in {"rejected", "threw"}
  /\ addCalls' = RemoveAt(addCalls, i)
  /\ InvalidateFiles
  /\ IF addCalls[i].observed
     THEN /\ addStatus' = "error"
          /\ isUploading' = FALSE
          /\ uploadProgress' = 0
          /\ sessLog' = Append(sessLog, "cleared")
          /\ Emit(UploadErrorToast(addCalls[i].cause), addCalls[i].cause,
                  InvalidateCalls, "")
     ELSE /\ Emit(NoNotice, "", InvalidateCalls, "")
          /\ UNCHANGED <<addStatus, isUploading, uploadProgress, sessLog>>
  /\ UNCHANGED <<actorVars, remoteVars, settleTimer, rendered, effectVars,
                 filePicker, fileToDelete, downloadVars, mounted>>

\* mutant: the failure handler resets the upload state after the settle
\* delay, as the success handler does
AddSettleErrorDelayed(i) ==
  /\ addCalls[i].stage \in {"rejected", "threw"}
  /\ addCalls' = RemoveAt(addCalls, i)
  /\ IF addCalls[i].observed
     THEN /\ addStatus' = "error"
          /\ settleTimer' = TRUE
          /\ Emit(UploadErrorToast(addCalls[i].cause), addCalls[i].cause,
                  {}, "")
     ELSE /\ Quiet
          /\ UNCHANGED <<addStatus, settleTimer>>
  /\ UNCHANGED <<actorVars, remoteVars, queryVars, isUploading,
                 uploadProgress, sessLog, rendered, effectVars, filePicker,
                 fileToDelete, downloadVars, mounted>>

\* mutant: a rejected addFile call is sent again
AddSettleErrorRetries(i) ==
  /\ addCalls[i].stage \in {"rejected", "threw"}
  /\ IF addCalls[i].stage = "rejected"
     THEN /\ addCalls' = [addCalls EXCEPT ![i].stage = "sent",
                                          ![i].cause = ""]
          /\ Emit(NoNotice, "", {"addFile"}, "")
          /\ UNCHANGED <<addStatus, isUploading, uploadProgress, sessLog>>
     ELSE /\ addCalls' = RemoveAt(addCalls, i)
          /\ IF addCalls[i].observed
             THEN /\ addStatus' = "error"
                  /\ isUploading' = FALSE
                  /\ uploadProgress' = 0
                  /\ sessLog' = Append(sessLog, "cleared")
                  /\ Emit(UploadErrorToast(addCalls[i].cause),
                          addCalls[i].cause, {}, "")
             ELSE /\ Quiet
                  /\ UNCHANGED <<addStatus, isUploading, uploadProgress,
                                 sessLog>>
  /\ UNCHANGED <<actorVars, remoteVars, queryVars, settleTimer, rendered,
                 effectVars, filePicker, fileToDelete, downloadVars, mounted>>

\* the addFile promise rejects: (observer still attached) handleFileSelect's
\* onError announces the failure, logs the error and clears the upload state
AddSettleError(i) ==
  /\ addCalls[i].stage \in {"rejected", "threw"}
  /\ addCalls' = RemoveAt(addCalls, i)
  /\ IF addCalls[i].observed
     THEN /\ addStatus' = "error"
          /\ isUploading' = FALSE
          /\ uploadProgress' = 0
          /\ sessLog' = Append(sessLog, "cleared")
          /\ Emit(UploadErrorToast(addCalls[i].cause), addCalls[i].cause,
                  {}, "")
     ELSE /\ Quiet
          /\ UNCHANGED <<addStatus, isUploading, uploadProgress, sessLog>>
  /\ UNCHANGED <<actorVars, remoteVars, queryVars, settleTimer, rendered,
                 effectVars, filePicker, fileToDelete, downloadVars, mounted>>

\* the setTimeout(500) callback of onSuccess; it is due long after the
\* commit that follows the settle.  Nothing cancels it: after teardown it
\* still calls setIsUploading and setUploadProgress, which React discards.
SettleDelay ==
  /\ settleTimer
  /\ mounted => rendered = View
  /\ settleTimer' = FALSE
  /\ IF mounted
     THEN /\ isUploading' = FALSE
          /\ uploadProgress' = 0
          /\ sessLog' = Append(sessLog, "cleared")
     ELSE UNCHANGED <<isUploading, uploadProgress, sessLog>>
  /\ EmitOut(NoNotice, "", {}, "")
  /\ staleSetState' = ~mounted
  /\ UNCHANGED <<actorVars, remoteVars, queryVars, addCalls, addStatus,
                 rendered, effectVars, filePicker, fileToDelete, downloadVars,
                 mounted>>

\* mutant: the interval callback neither clamps at the ceiling nor stops
TickUnclamped ==
  /\ intervalActive
  /\ currentProgress' = currentProgress + increment
  /\ uploadProgress' = currentProgress'
  /\ UNCHANGED intervalActive
  /\ Quiet
  /\ UNCHANGED <<actorVars, remoteVars, queryVars, addCalls, addStatus,
                 isUploading, settleTimer, sessLog, rendered, filePicker,
                 fileToDelete, downloadVars, mounted>>

\* ---------------------------------------------- Progress Illusion Engine
\* one callback of the effect's setInterval
Tick ==
  /\ intervalActive
  /\ currentProgress' = currentProgress + increment
  /\ IF currentProgress' >= ceiling
     THEN /\ uploadProgress' = ceiling
          /\ intervalActive' = FALSE
     ELSE /\ uploadProgress' = currentProgress'
          /\ UNCHANGED intervalActive
  /\ Quiet
  /\ UNCHANGED <<actorVars, remoteVars, queryVars, addCalls, addStatus,
                 isUploading, settleTimer, sessLog, rendered, filePicker,
                 fileToDelete, downloadVars, mounted>>

\* a React commit after state or mutation status changed: the page shows the
\* current values and the effect is re-run if its dependencies changed
Render ==
  /\ mounted
  /\ rendered # View
  /\ rendered' = View
  /\ EffectSync(rendered, View)
  /\ Quiet
  /\ UNCHANGED <<actorVars, remoteVars, queryVars, uploadVars, filePicker,
                 fileToDelete, downloadVars, mounted>>

\* ------------------------------------------ Content Retrieval Coordinator
\* mutationFn of useGetFileContent, run with the actor of the current render
GetContentStart(a, fileId) ==
  IF ~a
  THEN [id |-> fileId, observed |-> TRUE, stage |-> "threw",
        cause |-> ActorNotInitialized, name |-> ""]
  ELSE [id |-> fileId, observed |-> TRUE, stage |-> "sent",
        cause |-> "", name |-> ""]

GetContentCalls(a) == IF ~a THEN {} ELSE {"getFileContent"}

\* handleDownload up to its await: the download button of a listed file
handleDownload(fileId) ==
  /\ PageFree
  /\ fileId \in Ids(files)
  /\ ~DownloadDisabled
  /\ Len(dlCalls) < MaxDownloads
  /\ dlCalls' = Append(Unobserve(dlCalls), GetContentStart(actor, fileId))
  /\ dlStatus' = "pending"
  /\ Emit(NoNotice, "", GetContentCalls(actor), "")
  /\ UNCHANGED <<actorVars, remoteVars, queryVars, uploadVars, rendered,
                 effectVars, filePicker, fileToDelete, mounted>>

\* the remote store answers getFileContent: [name, bytes] under the name it
\* holds by then (a rename may have raced the listing), nothing, or the call
\* fails
RemoteGetContent(i) ==
  /\ dlCalls[i].stage = "sent"
  /\ \/ /\ dlCalls[i].id \in Ids(remote)
        /\ \E n \in Names :
             dlCalls' = [dlCalls EXCEPT ![i].stage = "present", ![i].name = n]
     \/ dlCalls' = [dlCalls EXCEPT ![i].stage = "absent"]
     \/ \E c \in Causes :
          dlCalls' = [dlCalls EXCEPT ![i].stage = "failed", ![i].cause = c]
  /\ UNCHANGED dlStatus
  /\ Quiet
  /\ UNCHANGED <<actorVars, remoteVars, queryVars, uploadVars, rendered,
                 effectVars, filePicker, fileToDelete, mounted>>

\* mutant: mutationFn passes an absent result on
GetContentThrowsUnchecked(c) == c.stage \in {"failed", "threw"}

\* mutationFn of useGetFileContent after its await: it throws when the actor
\* was missing, when the call failed and when the result is absent
GetContentThrows(c) == c.stage \in {"absent", "failed", "threw"}

\* the message of the error mutationFn throws
GetContentError(c) == IF c.stage = "absent" THEN FileNotFound ELSE c.cause

\* the name the cache holds for an id
CacheName(fileId) ==
  IF fileId \in Ids(files)
  THEN (CHOOSE r \in {files[k] : k \in 1..Len(files)} : r.id = fileId).name
  ELSE ""

\* mutant: the blob is offered under the name of the listed record
DownloadSettleSuccessCacheName(i) ==
  /\ dlCalls[i].stage # "sent"
  /\ ~GetContentThrows(dlCalls[i])
  /\ dlCalls' = RemoveAt(dlCalls, i)
  /\ dlStatus' = IF dlCalls[i].observed THEN "success" ELSE dlStatus
  /\ Emit(Toast("success", "Download started!", CacheName(dlCalls[i].id)),
          "", {}, CacheName(dlCalls[i].id))
  /\ UNCHANGED <<actorVars, remoteVars, queryVars, uploadVars, rendered,
                 effectVars, filePicker, fileToDelete, mounted>>

\* mutant: the retrieved name is written into the cached record
DownloadSettleSuccessCaches(i) ==
  /\ dlCalls[i].stage # "sent"
  /\ ~GetContentThrows(dlCalls[i])
  /\ dlCalls' = RemoveAt(dlCalls, i)
  /\ dlStatus' = IF dlCalls[i].observed THEN "success" ELSE dlStatus
  /\ files' = [k \in 1..Len(files) |->
                IF files[k].id = dlCalls[i].id
                THEN [files[k] EXCEPT !.name = dlCalls[i].name]
                ELSE files[k]]
  /\ Emit(Toast("success", "Download started!", dlCalls[i].name), "", {},
          dlCalls[i].name)
  /\ UNCHANGED <<actorVars, remoteVars, queryInvalidated, fetch, uploadVars,
                 rendered, effectVars, filePicker, fileToDelete, mounted>>

\* handleDownload after its await, success: the blob is offered under the
\* name the remote store reported
DownloadSettleSuccess(i) ==
  /\ dlCalls[i].stage # "sent"
  /\ ~GetContentThrows(dlCalls[i])
  /\ dlCalls' = RemoveAt(dlCalls, i)
  /\ dlStatus' = IF dlCalls[i].observed THEN "success" ELSE dlStatus
  /\ Emit(Toast("success", "Download started!", dlCalls[i].name), "", {},
          dlCalls[i].name)
  /\ UNCHANGED <<actorVars, remoteVars, queryVars, uploadVars, rendered,
                 effectVars, filePicker, fileToDelete, mounted>>

\* handleDownload after its await, catch: the error message is shown
DownloadSettleError(i) ==
  /\ GetContentThrows(dlCalls[i])
  /\ dlCalls' = RemoveAt(dlCalls, i)
  /\ dlStatus' = IF dlCalls[i].observed THEN "error" ELSE dlStatus
  /\ Emit(Toast("error", "Failed to download file",
                GetContentError(dlCalls[i])),
          GetContentError(dlCalls[i]), {}, "")
  /\ UNCHANGED <<actorVars, remoteVars, queryVars, uploadVars, rendered,
                 effectVars, filePicker, fileToDelete, mounted>>

\* ------------------------------------------------ Deletion Intent Handler
DeleteNotSupported ==
  Toast("error", "Delete functionality not yet implemented in backend", "")

\* the delete button of a listed file
handleDeleteClick(fileId) ==
  /\ PageFree
  /\ fileId \in Ids(files)
  /\ fileToDelete' = fileId
  /\ Quiet
  /\ UNCHANGED <<actorVars, remoteVars, queryVars, uploadVars, rendered,
                 effectVars, filePicker, downloadVars, mounted>>

\* mutant: a confirmed deletion drops the record from the cache
handleConfirmDeleteRemoves ==
  /\ mounted
  /\ ~filePicker
  /\ IF fileToDelete # NoFile
     THEN /\ Emit(DeleteNotSupported, "", {}, "")
          /\ fileToDelete' = NoFile
          /\ files' = SelectSeq(files, LAMBDA r : r.id # fileToDelete)
     ELSE /\ Quiet
          /\ UNCHANGED <<fileToDelete, files>>
  /\ UNCHANGED <<actorVars, remoteVars, queryInvalidated, fetch, uploadVars,
                 rendered, effectVars, filePicker, downloadVars, mounted>>

\* mutant: confirm reports the failure whether or not a deletion is pending
handleConfirmDeleteUnguarded ==
  /\ mounted
  /\ ~filePicker
  /\ Emit(DeleteNotSupported, "", {}, "")
  /\ fileToDelete' = NoFile
  /\ UNCHANGED <<actorVars, remoteVars, queryVars, uploadVars, rendered,
                 effectVars, filePicker, downloadVars, mounted>>

handleConfirmDelete ==
  /\ mounted
  /\ ~filePicker
  /\ IF fileToDelete # NoFile
     THEN /\ Emit(DeleteNotSupported, "", {}, "")
          /\ fileToDelete' = NoFile
     ELSE /\ Quiet
          /\ UNCHANGED fileToDelete
  /\ UNCHANGED <<actorVars, remoteVars, queryVars, uploadVars, rendered,
                 effectVars, filePicker, downloadVars, mounted>>

handleCancelDelete ==
  /\ mounted
  /\ ~filePicker
  /\ fileToDelete' = NoFile
  /\ Quiet
  /\ UNCHANGED <<actorVars, remoteVars, queryVars, uploadVars, rendered,
                 effectVars, filePicker, downloadVars, mounted>>

\* ---------------------------------------------------------------- teardown
\* FileStorageApp unmounts: effect cleanups run, observers unsubscribe;
\* setTimeout callbacks and promises already created stay
Teardown ==
  /\ mounted
  /\ mounted' = FALSE
  /\ intervalActive' = FALSE
  /\ filePicker' = FALSE
  /\ addCalls' = Unobserve(addCalls)
  /\ dlCalls' = Unobserve(dlCalls)
  /\ Quiet
  /\ UNCHANGED <<actorVars, remoteVars, queryVars, addStatus, isUploading,
                 uploadProgress, settleTimer, sessLog, rendered,
                 currentProgress, fileToDelete, dlStatus>>

\* ----------------------------------------------------------- specification
\* the binding, the files query, React commits and teardown
EnvNext ==
  \/ ActorReady
  \/ ActorLost
  \/ Refresh
  \/ RemoteGetFiles
  \/ FetchSettle
  \/ Render
  \/ Teardown

\* the upload path and its timers
UploadNext ==
  \/ handleUploadClick
  \/ handleFileSelectNone
  \/ \E n \in Names, s \in Sizes : handleFileSelect(n, s)
  \/ \E i \in 1..Len(addCalls) : RemoteAddAccept(i)
  \/ \E i \in 1..Len(addCalls), c \in Causes : RemoteAddReject(i, c)
  \/ \E i \in 1..Len(addCalls) : AddSettleSuccess(i)
  \/ \E i \in 1..Len(addCalls) : AddSettleError(i)
  \/ SettleDelay
  \/ Tick

\* the download and delete paths
BrowseNext ==
  \/ \E f \in Ids(files) : handleDownload(f)
  \/ \E i \in 1..Len(dlCalls) : RemoteGetContent(i)
  \/ \E i \in 1..Len(dlCalls) : DownloadSettleSuccess(i)
  \/ \E i \in 1..Len(dlCalls) : DownloadSettleError(i)
  \/ \E f \in Ids(files) : handleDeleteClick(f)
  \/ handleConfirmDelete
  \/ handleCancelDelete

Next == EnvNext \/ UploadNext \/ BrowseNext

\* the whole page
Spec == Init /\ [][Next]_vars

\* the page while the user only uploads
UploadSpec == Init /\ [][EnvNext \/ UploadNext]_vars

\* the page while the user only downloads and deletes
BrowseSpec == Init /\ [][EnvNext \/ BrowseNext]_vars

\* the upload page under the scheduling the event loop guarantees: a promise
\* that can settle does settle, the remote store answers a fetch that was sent
LiveUploadSpec ==
  /\ UploadSpec
  /\ WF_vars(\E i \in 1..Len(addCalls) : AddSettleSuccess(i))
  /\ WF_vars(RemoteGetFiles)
  /\ WF_vars(FetchSettle)

\* ------------------------------------------------------------------ claims
Cached(list, r) == \E k \in 1..Len(list) : list[k] = r

\* C1: the progress value is 100% only when the most recent upload attempt's
\* addFile call has settled successfully (no call is outstanding and the
\* mutation's status is success); a pending or failed upload never shows 100%.
C1_CompleteOnlyAfterSuccess ==
  uploadProgress = complete => (addStatus = "success" /\ addCalls = <<>>)

C1_Witness ==
  /\ uploadProgress = complete
  /\ addStatus = "success"
  /\ isUploading

\* C2: the steps of a failing upload (the submit, the remote rejection, the
\* failure handler) leave the File Cache and its query untouched and start
\* no getFiles call.
C2_FailedUploadLeavesCache ==
  [][(\/ \E n \in Names, s \in Sizes : handleFileSelect(n, s)
      \/ \E i \in 1..Len(addCalls), c \in Causes : RemoteAddReject(i, c)
      \/ \E i \in 1..Len(addCalls) : AddSettleError(i))
     => (UNCHANGED <<files, queryInvalidated, fetch>>
         /\ "getFiles" \notin issued')]_vars

C2_Witness ==
  /\ addStatus = "error"
  /\ notice.title = "Failed to upload file"
  /\ files # <<>>
  /\ ~queryInvalidated

\* C3: at most one addFile call is outstanding, and while one is outstanding
\* the upload state is set and the upload control is disabled.
C3_AtMostOneUpload ==
  /\ Len(addCalls) <= 1
  /\ addCalls # <<>> => (isUploading /\ UploadDisabled)

C3_Witness ==
  /\ Len(addCalls) = 1
  /\ addCalls[1].stage = "sent"
  /\ mounted

C5_DeletionStateMachine ==
  [][/\ \A f \in Ids(files) :
          handleDeleteClick(f) =>
            (fileToDelete = NoFile /\ fileToDelete' = f /\ notice' = NoNotice)
     /\ handleCancelDelete => (fileToDelete' = NoFile /\ notice' = NoNotice)
     /\ (handleConfirmDelete /\ fileToDelete # NoFile) =>
          (fileToDelete' = NoFile /\ notice' = DeleteNotSupported)
     /\ (handleConfirmDelete /\ fileToDelete = NoFile) =>
          (fileToDelete' = NoFile /\ notice' = NoNotice)
     /\ fileToDelete' # fileToDelete =>
          \/ \E f \in Ids(files) : handleDeleteClick(f)
          \/ handleCancelDelete
          \/ handleConfirmDelete
     /\ notice' = DeleteNotSupported =>
          (handleConfirmDelete /\ fileToDelete # NoFile)]_vars

C5_Witness ==
  /\ notice = DeleteNotSupported
  /\ fileToDelete = NoFile
  /\ mounted

\* C6: the failure notification of an upload carries the cause of the
\* failure (the cause the handler logs).
C6_UploadFailureCarriesCause ==
  notice.title = "Failed to upload file" => notice.description = consoleErr

\* C7: the failure handler clears the upload state in its own step, arming
\* no settle timer: right after it isUploading is false and progress is 0,
\* so the commit it schedules shows the upload control enabled.
C7_FailureClearsAtOnce ==
  [][\A i \in 1..Len(addCalls) :
       (AddSettleError(i) /\ addCalls[i].observed) =>
         /\ isUploading' = FALSE
         /\ uploadProgress' = 0
         /\ settleTimer' = FALSE
         /\ View'.isUploading = FALSE]_vars

C7_Witness ==
  /\ addStatus = "error"
  /\ ~isUploading
  /\ uploadProgress = 0
  /\ ~settleTimer
  /\ filePicker

\* C8: with the binding unavailable a submit issues no remote call, and the
\* notification of its failure is not one that a remote failure produces.
C8_UnavailableIsDistinct ==
  [][/\ \A n \in Names, s \in Sizes :
          (handleFileSelect(n, s) /\ ~actor) => issued' = {}
     /\ \A i \in 1..Len(addCalls) :
          (AddSettleError(i) /\ addCalls[i].observed
             /\ addCalls[i].stage = "threw") =>
            notice' \notin {UploadErrorToast(c) : c \in Causes}]_vars

\* C9: the events of an upload session come in the order acceptance,
\* invalidation, progress 100%, clear (a failing session has the clear only).
SessionOrder == <<"accepted", "invalidated", "progress100", "cleared">>

C9_SessionOrder ==
  \/ \E k \in 0..Len(SessionOrder) : sessLog = SubSeq(SessionOrder, 1, k)
  \/ sessLog = <<"cleared">>

C9_Witness == sessLog = SessionOrder

\* C10: once the remote store has accepted an upload as record r, the File
\* Cache eventually contains r, unless the binding becomes unavailable, the
\* page is torn down or a getFiles call fails.
C10_AcceptedReachesCache ==
  \A k \in (Len(InitialStore) + 1)..(Len(InitialStore) + MaxAccepted) :
    (\E i \in 1..Len(addCalls) :
       addCalls[i].stage = "accepted" /\ addCalls[i].id = k) ~>
      \/ (Len(remote) >= k /\ Cached(files, remote[k]))
      \/ ~actor
      \/ ~mounted
      \/ fetch.stage = "failed"

C10_Witness ==
  /\ Len(remote) > Len(InitialStore)
  /\ Cached(files, remote[Len(remote)])
  /\ mounted


\* C11: while the addFile call is pending, progress starts at 0, never
\* decreases, changes only by a timer tick that adds the fixed increment,
\* never exceeds the ceiling of 95%, and once at the ceiling stays there.
C11_PendingProgressRamp ==
  [][/\ \A n \in Names, s \in Sizes :
          handleFileSelect(n, s) => (uploadProgress' = 0 /\ currentProgress' = 0)
     /\ (addStatus = "pending" /\ addStatus' = "pending") =>
          /\ uploadProgress' >= uploadProgress
          /\ uploadProgress' <= ceiling
          /\ uploadProgress = ceiling => uploadProgress' = ceiling
          /\ uploadProgress' # uploadProgress =>
               (Tick /\ uploadProgress' = uploadProgress + increment)]_vars

C11_Witness ==
  /\ addStatus = "pending"
  /\ uploadProgress = ceiling
  /\ ~intervalActive
  /\ Len(addCalls) = 1
  /\ mounted


\* C12: the progress timer stops the instant its upload session ends: an
\* interval callback runs only while the page is mounted and the addFile
\* call of the session has not settled.
C12_TimerStopsWithSession ==
  [][Tick => (mounted /\ addStatus = "pending")]_vars


\* C13: after teardown no timer callback writes the upload state: no step
\* calls setIsUploading or setUploadProgress of the unmounted page.
C13_NoOrphanedWrites == ~staleSetState


\* C14: a retrieval whose remote getFileContent returned absent settles as
\* a failure: the notice is the download failure carrying "File not found"
\* and nothing is offered as a download, also for an id the cache lists.
C14_AbsentIsNotFound ==
  [][\A i \in 1..Len(dlCalls) :
       (dlCalls[i].stage = "absent" /\ dlCalls' = RemoveAt(dlCalls, i)) =>
         /\ notice' = Toast("error", "Failed to download file", FileNotFound)
         /\ consoleErr' = FileNotFound
         /\ saved' = ""
         /\ issued' = {}]_vars

C14_Witness ==
  /\ notice = Toast("error", "Failed to download file", FileNotFound)
  /\ saved = ""
  /\ 1 \in Ids(files)
  /\ 1 \in Ids(remote)

\* C15: a download click with the binding available issues getFileContent
\* once for the clicked id and nothing else does, neither settle issues a
\* call, and a present result is offered once, under the name the remote
\* store reported rather than the name the cache lists.
C15_OneCallRemoteName ==
  [][/\ \A f \in Ids(files) :
          (handleDownload(f) /\ actor) =>
            /\ issued' = {"getFileContent"}
            /\ Len(dlCalls') = Len(dlCalls) + 1
            /\ dlCalls'[Len(dlCalls')].id = f
            /\ dlCalls'[Len(dlCalls')].stage = "sent"
     /\ "getFileContent" \in issued' =>
          \E f \in Ids(files) : handleDownload(f)
     /\ \A i \in 1..Len(dlCalls) :
          /\ DownloadSettleSuccess(i) =>
               /\ dlCalls[i].stage = "present"
               /\ saved' = dlCalls[i].name
               /\ issued' = {}
               /\ Len(dlCalls') = Len(dlCalls) - 1
          /\ DownloadSettleError(i) => (issued' = {} /\ saved' = "")
     /\ saved' # "" => \E i \in 1..Len(dlCalls) : DownloadSettleSuccess(i)]_vars

C15_Witness ==
  /\ saved = "b.pdf"
  /\ notice = Toast("success", "Download started!", "b.pdf")
  /\ CacheName(1) = "a.txt"
  /\ dlCalls = <<>>


\* C16: retrievals are serialized: in every reachable state at most one
\* getFileContent call is waiting for the remote store.
C16_OneRetrievalOutstanding ==
  Cardinality({i \in 1..Len(dlCalls) : dlCalls[i].stage = "sent"}) <= 1


\* C17: every record of the File Cache is a record the remote store holds;
\* the cache changes only when a listFiles fetch settles, and then it is the
\* fetched list: nothing places a selected file in it before acceptance.
C17_CacheWithinRemote ==
  /\ [](\A k \in 1..Len(files) : Cached(remote, files[k]))
  /\ [][files' # files => (FetchSettle /\ files' = fetch.data)]_vars

C17_Witness ==
  /\ Len(addCalls) = 1
  /\ addCalls[1].stage = "accepted"
  /\ Len(remote) = Len(InitialStore) + 1
  /\ files = InitialStore

\* C18: a successful refresh sets the cache to exactly the list the remote
\* store returned, replacing what was cached; a refresh that returns the
\* list already cached leaves the cache as it was.
C18_RefreshReplaces ==
  [][/\ (RemoteGetFiles /\ fetch'.stage = "replied") => fetch'.data = remote
     /\ (FetchSettle /\ fetch.stage = "replied") =>
          /\ files' = fetch.data
          /\ fetch.data = files => files' = files
          /\ ~queryInvalidated']_vars

C18_Witness ==
  /\ fetch.stage = "replied"
  /\ fetch.data = files
  /\ files = remote
  /\ Len(files) = Len(InitialStore) + 1

\* C19: a file selection with the binding available issues addFile once,
\* for the selected name and size; no other step issues addFile or puts a
\* call back in flight, in particular not the failure of an earlier call.
C19_AddFileIssuedOnce ==
  [][/\ \A n \in Names, s \in Sizes :
          (handleFileSelect(n, s) /\ actor) =>
            /\ issued' = {"addFile"}
            /\ Len(addCalls') = Len(addCalls) + 1
            /\ addCalls'[Len(addCalls')] = AddFileStart(TRUE, n, s)
     /\ "addFile" \in issued' =>
          \E n \in Names, s \in Sizes : handleFileSelect(n, s)
     /\ Cardinality({i \in 1..Len(addCalls') : addCalls'[i].stage = "sent"})
          > Cardinality({i \in 1..Len(addCalls) : addCalls[i].stage = "sent"})
          => \E n \in Names, s \in Sizes : handleFileSelect(n, s)
     /\ \A i \in 1..Len(addCalls) :
          AddSettleError(i) =>
            (issued' = {} /\ Len(addCalls') = Len(addCalls) - 1)]_vars

C19_Witness ==
  /\ addStatus = "error"
  /\ addCalls = <<>>
  /\ consoleErr \in Causes
  /\ issued = {}
  /\ Len(remote) = Len(InitialStore)

\* C20: from the success of an upload until its settle delay fires, progress
\* is 100 and the upload is still marked as running.
C20_CompleteUntilDelay ==
  (settleTimer /\ mounted) => (uploadProgress = complete /\ isUploading)


C22_IdleProgressZero ==
  (mounted /\ ~isUploading) => uploadProgress = 0

====
